---- MODULE Spec2Model ----
(***************************************************************************)
(* A model of html_report_generator/html_generator.py: the name            *)
(* decomposition, the ordering of directory entries, one run of            *)
(* generate_html_report over a small directory tree, and the tab script of *)
(* the generated page.  A name is a sequence of one-character strings.     *)
(***************************************************************************)
EXTENDS Naturals, Sequences, FiniteSets

VARIABLES
    name,           \* detect_and_remove_prefix: the argument
    decomposed,     \* detect_and_remove_prefix: <<>> before the call, <<prefix, clean_name>> after
    items,          \* sort_files_and_folders: the argument, names in the order given
    sorted_items,   \* sort_files_and_folders: <<"none">> before the call, <<"ok", result>> after
    resorted,       \* the result sorted once more: <<"none">> or <<"ok", result>>
    root,           \* what input_path is: "missing", "file" or "dir"
    top,            \* the entries of input_path: a set of [name, kind]
    tree,           \* the entries of each subdirectory of input_path, by its name
    out0,           \* the output path before the run: "absent" or "old"
    outFile,        \* the output path now: [st, doc]
    outOpened,      \* whether the run has opened the output path for writing
    pc,             \* where generate_html_report stands
    error,          \* the exception that ended the run: <<"none">>, <<kind>> or <<kind, entry kind>>
    folders,        \* the entries of the outer loop not yet visited, sorted
    folder,         \* the name of the subdirectory being rendered
    tabs_links,     \* tabs_links
    tabs_content,   \* tabs_content
    tab_content,    \* tab_content, the block being built
    csv_files,      \* the CSV entries of the folder not yet rendered, sorted
    plot_files,     \* the PNG entries of the folder not yet rendered, sorted
    html_content,   \* html_content
    handles,        \* the file handles the run holds open
    listed,         \* how many directory listings the run has made
    reads,          \* how many input files the run has opened
    loaded,         \* the page: whether the DOMContentLoaded handler has run
    display,        \* the page: for each tab-content block, whether it is displayed
    lastClick       \* the page: the tab link the user clicked last, 0 before any click

nameVars == <<name, decomposed>>
sortVars == <<items, sorted_items, resorted>>
fsVars == <<root, top, tree, out0>>
loopVars == <<folders, folder, tabs_links, tabs_content, tab_content, csv_files, plot_files>>
pageVars == <<loaded, display, lastClick>>
runVars == <<fsVars, outFile, outOpened, pc, error, loopVars, html_content, handles,
             listed, reads, pageVars>>
vars == <<nameVars, sortVars, runVars>>

----------------------------------------------------------------------------
(* Bounds *)

MaxNameLen == 4     \* longest name given to detect_and_remove_prefix
MaxItems == 3       \* most entries given to sort_files_and_folders
MaxEntries == 4     \* most entries, at both levels together, of the input directory

----------------------------------------------------------------------------
(* Characters *)

Digits == {"0", "1", "2", "3", "4", "5", "6", "7", "8", "9"}

\* str.strip() with no argument removes whitespace; of the characters used here
\* these are the space and the line feed.
Whitespace == {" ", "\n"}

\* The code point of a character: Python orders str values by code point.
Ord(c) ==
    CASE c = "\n" -> 10
      [] c = " " -> 32
      [] c = "." -> 46
      [] c = "0" -> 48
      [] c = "1" -> 49
      [] c = "2" -> 50
      [] c = "3" -> 51
      [] c = "A" -> 65
      [] c = "B" -> 66
      [] c = "_" -> 95
      [] c = "a" -> 97
      [] c = "b" -> 98
      [] c = "c" -> 99
      [] c = "d" -> 100
      [] c = "g" -> 103
      [] c = "n" -> 110
      [] c = "p" -> 112
      [] c = "q" -> 113
      [] c = "s" -> 115
      [] c = "t" -> 116
      [] c = "u" -> 117
      [] c = "v" -> 118
      [] c = "x" -> 120

DigitValue(c) == Ord(c) - 48

Range(s) == {s[i] : i \in 1..Len(s)}

----------------------------------------------------------------------------
(* detect_and_remove_prefix *)

\* str.strip(): the longest slice with no whitespace at either end.
strip(s) ==
    LET keep == {i \in 1..Len(s) : s[i] \notin Whitespace}
    IN  IF keep = {} THEN <<>>
        ELSE LET first == CHOOSE i \in keep : \A j \in keep : i <= j
                 last == CHOOSE i \in keep : \A j \in keep : j <= i
             IN  SubSeq(s, first, last)

\* Where "(.+)$" ends when tried at position i of s, 0 when it does not match there.
\* "." matches any character but a line feed and "+" is greedy, so ".+" takes the
\* whole run of such characters from i; "$" (no MULTILINE flag) matches at the end
\* of s and just before a line feed that ends s.  Giving characters back never
\* helps: "$" would then stand before a character that is not a final line feed.
DotPlusEnd(s, i) ==
    IF i > Len(s) \/ s[i] = "\n" THEN 0
    ELSE LET stops == {j \in i..Len(s) : s[j] = "\n"}
             e == IF stops = {} THEN Len(s)
                  ELSE (CHOOSE j \in stops : \A k \in stops : j <= k) - 1
         IN  IF e = Len(s) \/ e = Len(s) - 1 THEN e ELSE 0

\* The lengths k of "\d+" for which group 1, "(\d+_)", matches at the start of s
\* and the rest of the pattern matches after it.
PrefixRuns(s) ==
    {k \in 1..Len(s) :
        /\ \A i \in 1..k : s[i] \in Digits
        /\ k + 1 <= Len(s)
        /\ s[k + 1] = "_"
        /\ DotPlusEnd(s, k + 2) # 0}

\* re.match(r"^(\d+_)?(.+)$", name): "\d+" is greedy, so the longest run is tried
\* first; the optional group is left out only when no run lets the rest match.
\* <<"match", group 1 or <<>>, group 2>> or <<"none">>.
ReMatch(s) ==
    IF PrefixRuns(s) # {}
    THEN LET k == CHOOSE r \in PrefixRuns(s) : \A q \in PrefixRuns(s) : q <= r
         IN  <<"match", SubSeq(s, 1, k + 1), SubSeq(s, k + 2, DotPlusEnd(s, k + 2))>>
    ELSE IF DotPlusEnd(s, 1) # 0
         THEN <<"match", <<>>, SubSeq(s, 1, DotPlusEnd(s, 1))>>
         ELSE <<"none">>

\* The match returned as it is, clean_name not stripped.
detect_and_remove_prefix_nostrip(n) ==
    LET m == ReMatch(n)
    IN  IF m[1] = "match" THEN <<m[2], m[3]>> ELSE <<<<>>, n>>

\* <<prefix, clean_name>>
detect_and_remove_prefix(n) ==
    LET m == ReMatch(n)
    IN  IF m[1] = "match" THEN <<m[2], strip(m[3])>> ELSE <<<<>>, strip(n)>>

----------------------------------------------------------------------------
(* sort_files_and_folders *)

RECURSIVE ParseInt(_)
\* int(digits), base ten
ParseInt(ds) ==
    IF ds = <<>> THEN 0
    ELSE 10 * ParseInt(SubSeq(ds, 1, Len(ds) - 1)) + DigitValue(ds[Len(ds)])

\* extract_key: <<is float("inf"), int(prefix[:-1]), item.name>>
extract_key(n) ==
    LET prefix == detect_and_remove_prefix(n)[1]
    IN  IF prefix # <<>>
        THEN <<FALSE, ParseInt(SubSeq(prefix, 1, Len(prefix) - 1)), n>>
        ELSE <<TRUE, 0, n>>

RECURSIVE StrLess(_, _)
\* a < b for str: the first differing code point decides, a proper prefix is less
StrLess(a, b) ==
    IF b = <<>> THEN FALSE
    ELSE IF a = <<>> THEN TRUE
    ELSE IF a[1] # b[1] THEN Ord(a[1]) < Ord(b[1])
    ELSE StrLess(Tail(a), Tail(b))

\* k1 < k2 for the key tuples: the first components decide unless they are equal
KeyLess(k1, k2) ==
    LET firstLess == (~k1[1] /\ k2[1]) \/ (~k1[1] /\ ~k2[1] /\ k1[2] < k2[2])
        firstEq == (k1[1] /\ k2[1]) \/ (~k1[1] /\ ~k2[1] /\ k1[2] = k2[2])
    IN  firstLess \/ (firstEq /\ StrLess(k1[3], k2[3]))

RECURSIVE InsertByKey(_, _)
\* x put into the sorted sequence s after every element whose key is not greater
InsertByKey(x, s) ==
    IF s = <<>> THEN <<x>>
    ELSE IF KeyLess(extract_key(x), extract_key(s[1])) THEN <<x>> \o s
    ELSE <<s[1]>> \o InsertByKey(x, Tail(s))

RECURSIVE SortedByKey(_)
\* sorted(items, key=extract_key): a stable sort
SortedByKey(s) ==
    IF s = <<>> THEN <<>>
    ELSE InsertByKey(s[Len(s)], SortedByKey(SubSeq(s, 1, Len(s) - 1)))

\* A sort on the name alone, the numeric prefix not read.
sort_files_and_folders_by_name(its) ==
    LET RECURSIVE Ins(_, _)
        Ins(x, s) == IF s = <<>> THEN <<x>>
                     ELSE IF StrLess(x, s[1]) THEN <<x>> \o s
                     ELSE <<s[1]>> \o Ins(x, Tail(s))
        RECURSIVE Srt(_)
        Srt(s) == IF s = <<>> THEN <<>> ELSE Ins(s[Len(s)], Srt(SubSeq(s, 1, Len(s) - 1)))
    IN  Srt(its)

\* The entries returned in the order the directory listing gave them.
sort_files_and_folders_unsorted(its) == its

sort_files_and_folders(its) == SortedByKey(its)

----------------------------------------------------------------------------
(* The values of generate_html_report's state before a run *)

NoDoc == [links |-> <<>>, blocks |-> <<>>]
NoBlock == [id |-> <<>>, body |-> <<>>]

\* The locals of generate_html_report before its first statement, and the page
\* before it is opened.
RunStart ==
    /\ outOpened = FALSE
    /\ pc = "check"
    /\ error = <<"none">>
    /\ folders = <<>>
    /\ folder = <<>>
    /\ tabs_links = <<>>
    /\ tabs_content = <<>>
    /\ tab_content = NoBlock
    /\ csv_files = <<>>
    /\ plot_files = <<>>
    /\ html_content = NoDoc
    /\ handles = {}
    /\ listed = 0
    /\ reads = 0
    /\ loaded = FALSE
    /\ display = <<>>
    /\ lastClick = 0

\* No run: the pure functions are checked on their own.
RunIdle ==
    /\ root = "missing"
    /\ top = {}
    /\ tree = <<>>
    /\ out0 = "absent"
    /\ outFile = [st |-> "absent", doc |-> NoDoc]
    /\ RunStart

----------------------------------------------------------------------------
(* Specification of detect_and_remove_prefix over every short name *)

NameAlphabet == {"0", "1", "_", " ", "a", "\n"}

Names == UNION {[1..k -> NameAlphabet] : k \in 0..MaxNameLen}

InitName ==
    /\ name \in Names
    /\ decomposed = <<>>
    /\ items = <<>>
    /\ sorted_items = <<"none">>
    /\ resorted = <<"none">>
    /\ RunIdle

Decompose ==
    /\ decomposed = <<>>
    /\ decomposed' = detect_and_remove_prefix(name)
    /\ UNCHANGED <<name, sortVars, runVars>>

NextName == Decompose

SpecName == InitName /\ [][NextName]_vars

----------------------------------------------------------------------------
(* Specification of sort_files_and_folders over short lists of distinct names *)

SortPool ==
    { <<"2", "_", "x">>, <<"1", "0", "_", "x">>, <<"0", "1", "_", "a">>,
      <<"1", "_", "a">>, <<"x">>, <<"a">>, <<"1", "_">>, <<"a", "b">> }

\* The sequences of distinct names of s, up to n long.
DistinctSeqs(s, n) ==
    UNION {{q \in [1..k -> s] : \A i, j \in 1..k : i # j => q[i] # q[j]} : k \in 0..n}

InitSort ==
    /\ items \in DistinctSeqs(SortPool, MaxItems)
    /\ sorted_items = <<"none">>
    /\ resorted = <<"none">>
    /\ name = <<>>
    /\ decomposed = <<>>
    /\ RunIdle

Sort ==
    /\ sorted_items = <<"none">>
    /\ sorted_items' = <<"ok", sort_files_and_folders(items)>>
    /\ UNCHANGED <<items, resorted, nameVars, runVars>>

SortAgain ==
    /\ sorted_items # <<"none">>
    /\ resorted = <<"none">>
    /\ resorted' = <<"ok", sort_files_and_folders(sorted_items[2])>>
    /\ UNCHANGED <<items, sorted_items, nameVars, runVars>>

NextSort == Sort \/ SortAgain

SpecSort == InitSort /\ [][NextSort]_vars

----------------------------------------------------------------------------
(* generate_html_report: the input tree *)

Entry(n, k) == [name |-> n, kind |-> k]

\* What input_path may hold: subdirectories (two pairs of them with one display
\* name or one tab identifier, one whose display name is empty) and a file.
TopPool ==
    { Entry(<<"2", "_", "B">>, "dir"), Entry(<<"1", "0", "_", "A">>, "dir"),
      Entry(<<"1", "_", "B">>, "dir"), Entry(<<"A", " ", "B">>, "dir"),
      Entry(<<"A", "_", "B">>, "dir"), Entry(<<"3", "_", " ">>, "dir"),
      Entry(<<"0", "_", "n">>, "file") }

\* What a subdirectory may hold: CSV and PNG files, a file of another type, a
\* nested directory and a nested directory named like a CSV file.
SubPool ==
    { Entry(<<"2", "_", ".", "c", "s", "v">>, "file"),
      Entry(<<"1", "0", "_", "a", ".", "c", "s", "v">>, "file"),
      Entry(<<"2", "_", "p", ".", "p", "n", "g">>, "file"),
      Entry(<<"1", "0", "_", "q", ".", "p", "n", "g">>, "file"),
      Entry(<<"n", ".", "t", "x", "t">>, "file"),
      Entry(<<"s", "u", "b">>, "dir"),
      Entry(<<"d", ".", "c", "s", "v">>, "dir") }

SubsetsUpTo(S, k) == {x \in SUBSET S : Cardinality(x) <= k}

NamesOf(es) == {e.name : e \in es}

DirNames(es) == NamesOf({e \in es : e.kind = "dir"})

\* Path.is_dir() / what open() finds: the kind of the entry of es named n
KindOf(es, n) == (CHOOSE e \in es : e.name = n).kind

RECURSIVE TotalEntries(_, _)
TotalEntries(t, D) ==
    IF D = {} THEN 0
    ELSE LET d == CHOOSE x \in D : TRUE
         IN  Cardinality(t[d]) + TotalEntries(t, D \ {d})

\* The orders in which a directory listing may yield the names of S.
Orders(S) ==
    {q \in [1..Cardinality(S) -> S] : \A i, j \in 1..Cardinality(S) : i # j => q[i] # q[j]}

----------------------------------------------------------------------------
(* generate_html_report: helpers *)

EndsWith(n, suffix) ==
    /\ Len(n) >= Len(suffix)
    /\ SubSeq(n, Len(n) - Len(suffix) + 1, Len(n)) = suffix

\* Path.glob("*" + suffix): every entry, of either kind, whose name ends with it
Glob(es, suffix) == NamesOf({e \in es : EndsWith(e.name, suffix)})

\* The name with its suffix kept.
stem_with_suffix(n) == n

\* Path.stem: the name up to its last dot, when that dot is neither the first nor
\* the last character
stem(n) ==
    LET dots == {i \in 1..Len(n) : n[i] = "."}
    IN  IF dots = {} THEN n
        ELSE LET i == CHOOSE d \in dots : \A e \in dots : e <= d
             IN  IF 1 < i /\ i < Len(n) THEN SubSeq(n, 1, i - 1) ELSE n

\* str.replace(" ", "_")
ReplaceSpaces(n) == [i \in 1..Len(n) |-> IF n[i] = " " THEN "_" ELSE n[i]]

\* The handle left open when the block is left by an exception.
WithExitOnSuccess(hs, h, ok) == IF ok THEN hs \ {h} ELSE hs

\* Leaving a with block (and pandas.read_csv) closes the handle, whether the block
\* ended normally (ok) or by an exception.
WithExit(hs, h, ok) == hs \ {h}

----------------------------------------------------------------------------
(* generate_html_report: the steps of one run *)

PureIdle ==
    /\ name = <<>>
    /\ decomposed = <<>>
    /\ items = <<>>
    /\ sorted_items = <<"none">>
    /\ resorted = <<"none">>

Init ==
    /\ PureIdle
    /\ root \in {"missing", "file", "dir"}
    /\ top \in SubsetsUpTo(TopPool, MaxEntries)
    /\ root # "dir" => top = {}
    /\ tree \in [DirNames(top) -> SubsetsUpTo(SubPool, MaxEntries - Cardinality(top))]
    /\ Cardinality(top) + TotalEntries(tree, DOMAIN tree) <= MaxEntries
    /\ out0 \in {"absent", "old"}
    /\ outFile = [st |-> out0, doc |-> NoDoc]
    /\ RunStart

\* The output file opened, and so emptied, before the input path is looked at.
CheckRootOutputFirst ==
    /\ pc = "check"
    /\ outFile' = [st |-> "empty", doc |-> NoDoc]
    /\ outOpened' = TRUE
    /\ IF root = "dir"
       THEN pc' = "iterdir" /\ error' = error
       ELSE pc' = "raised" /\ error' = <<"ValueError">>
    /\ UNCHANGED <<nameVars, sortVars, fsVars, loopVars, html_content,
                   handles, listed, reads, pageVars>>

\* input_path.is_dir(), else raise ValueError
CheckRoot ==
    /\ pc = "check"
    /\ IF root = "dir"
       THEN pc' = "iterdir" /\ error' = error
       ELSE pc' = "raised" /\ error' = <<"ValueError">>
    /\ UNCHANGED <<nameVars, sortVars, fsVars, outFile, outOpened, loopVars, html_content,
                   handles, listed, reads, pageVars>>

\* sort_files_and_folders(input_path.iterdir())
ListRoot ==
    /\ pc = "iterdir"
    /\ \E order \in Orders(NamesOf(top)) : folders' = sort_files_and_folders(order)
    /\ listed' = listed + 1
    /\ pc' = "folder"
    /\ UNCHANGED <<nameVars, sortVars, fsVars, outFile, outOpened, error, folder, tabs_links,
                   tabs_content, tab_content, csv_files, plot_files, html_content,
                   handles, reads, pageVars>>

\* if not folder.is_dir(): continue
SkipEntry ==
    /\ pc = "folder"
    /\ folders # <<>>
    /\ KindOf(top, Head(folders)) # "dir"
    /\ folders' = Tail(folders)
    /\ UNCHANGED <<nameVars, sortVars, fsVars, outFile, outOpened, pc, error, folder,
                   tabs_links, tabs_content, tab_content, csv_files, plot_files,
                   html_content, handles, listed, reads, pageVars>>

\* The tab link, the opening of the tab-content block, and the sorted CSV listing
EnterFolder ==
    /\ pc = "folder"
    /\ folders # <<>>
    /\ KindOf(top, Head(folders)) = "dir"
    /\ LET f == Head(folders)
           tab_name == detect_and_remove_prefix(f)[2]
           tab_id == ReplaceSpaces(tab_name)
           found == Glob(tree[f], <<".", "c", "s", "v">>)
       IN  /\ tabs_links' = Append(tabs_links, [tab_id |-> tab_id, tab_name |-> tab_name])
           /\ tab_content' = [id |-> tab_id, body |-> <<>>]
           /\ folder' = f
           /\ \E order \in Orders(found) : csv_files' = sort_files_and_folders(order)
    /\ folders' = Tail(folders)
    /\ listed' = listed + 1
    /\ pc' = "csv"
    /\ UNCHANGED <<nameVars, sortVars, fsVars, outFile, outOpened, error, tabs_content,
                   plot_files, html_content, handles, reads, pageVars>>

\* The entries of the folder being rendered
Here == tree[folder]

\* pd.read_csv(csv_file) opens the file: a directory, or a file that cannot be
\* opened, raises
OpenCsv ==
    /\ pc = "csv"
    /\ csv_files # <<>>
    /\ LET f == Head(csv_files)
           k == KindOf(Here, f)
       IN  \E ok \in BOOLEAN :
             IF k = "file" /\ ok
             THEN /\ handles' = handles \cup {<<folder, f>>}
                  /\ reads' = reads + 1
                  /\ pc' = "csv_parse"
                  /\ error' = error
             ELSE /\ pc' = "raised"
                  /\ error' = <<"csv", k>>
                  /\ UNCHANGED <<handles, reads>>
    /\ UNCHANGED <<nameVars, sortVars, fsVars, outFile, outOpened, loopVars, html_content,
                   listed, pageVars>>

\* pd.read_csv parses and closes the file; the heading and the table are appended
ParseCsv ==
    /\ pc = "csv_parse"
    /\ LET f == Head(csv_files)
           csv_name == detect_and_remove_prefix(stem(f))[2]
       IN  \E ok \in BOOLEAN :
             /\ handles' = WithExit(handles, <<folder, f>>, ok)
             /\ IF ok
                THEN /\ tab_content' = [tab_content EXCEPT !.body =
                            Append(@, [kind |-> "table", heading |-> csv_name, file |-> f])]
                     /\ csv_files' = Tail(csv_files)
                     /\ pc' = "csv"
                     /\ error' = error
                ELSE /\ pc' = "raised"
                     /\ error' = <<"csv", "file">>
                     /\ UNCHANGED <<tab_content, csv_files>>
    /\ UNCHANGED <<nameVars, sortVars, fsVars, outFile, outOpened, folders, folder,
                   tabs_links, tabs_content, plot_files, html_content, listed, reads,
                   pageVars>>

\* sort_files_and_folders(folder.glob("*.png")), once the CSV loop has ended
ListPlots ==
    /\ pc = "csv"
    /\ csv_files = <<>>
    /\ \E order \in Orders(Glob(Here, <<".", "p", "n", "g">>)) :
          plot_files' = sort_files_and_folders(order)
    /\ listed' = listed + 1
    /\ pc' = "plot"
    /\ UNCHANGED <<nameVars, sortVars, fsVars, outFile, outOpened, error, folders, folder,
                   tabs_links, tabs_content, tab_content, csv_files, html_content,
                   handles, reads, pageVars>>

\* encode_image_to_base64: open(image_path, "rb")
OpenPlot ==
    /\ pc = "plot"
    /\ plot_files # <<>>
    /\ LET f == Head(plot_files)
           k == KindOf(Here, f)
       IN  \E ok \in BOOLEAN :
             IF k = "file" /\ ok
             THEN /\ handles' = handles \cup {<<folder, f>>}
                  /\ reads' = reads + 1
                  /\ pc' = "plot_read"
                  /\ error' = error
             ELSE /\ pc' = "raised"
                  /\ error' = <<"image", k>>
                  /\ UNCHANGED <<handles, reads>>
    /\ UNCHANGED <<nameVars, sortVars, fsVars, outFile, outOpened, loopVars, html_content,
                   listed, pageVars>>

\* encode_image_to_base64: img_file.read(), the with block left; the plot appended
ReadPlot ==
    /\ pc = "plot_read"
    /\ LET f == Head(plot_files)
           plot_name == detect_and_remove_prefix(stem(f))[2]
       IN  \E ok \in BOOLEAN :
             /\ handles' = WithExit(handles, <<folder, f>>, ok)
             /\ IF ok
                THEN /\ tab_content' = [tab_content EXCEPT !.body =
                            Append(@, [kind |-> "plot", heading |-> plot_name, file |-> f])]
                     /\ plot_files' = Tail(plot_files)
                     /\ pc' = "plot"
                     /\ error' = error
                ELSE /\ pc' = "raised"
                     /\ error' = <<"image", "file">>
                     /\ UNCHANGED <<tab_content, plot_files>>
    /\ UNCHANGED <<nameVars, sortVars, fsVars, outFile, outOpened, folders, folder,
                   tabs_links, tabs_content, csv_files, html_content, listed, reads,
                   pageVars>>

\* tab_content += "</div>"; tabs_content.append(tab_content)
CloseFolder ==
    /\ pc = "plot"
    /\ plot_files = <<>>
    /\ tabs_content' = Append(tabs_content, tab_content)
    /\ tab_content' = NoBlock
    /\ folder' = <<>>
    /\ pc' = "folder"
    /\ UNCHANGED <<nameVars, sortVars, fsVars, outFile, outOpened, error, folders,
                   tabs_links, csv_files, plot_files, html_content, handles, listed,
                   reads, pageVars>>

\* html_content: the template, the tab bar, the blocks, the closing
Assemble ==
    /\ pc = "folder"
    /\ folders = <<>>
    /\ html_content' = [links |-> tabs_links, blocks |-> tabs_content]
    /\ pc' = "open"
    /\ UNCHANGED <<nameVars, sortVars, fsVars, outFile, outOpened, error, loopVars,
                   handles, listed, reads, pageVars>>

\* open(output_file, "w"): creates the file or empties the one there
OpenOutput ==
    /\ pc = "open"
    /\ \E ok \in BOOLEAN :
          IF ok
          THEN /\ outFile' = [st |-> "empty", doc |-> NoDoc]
               /\ outOpened' = TRUE
               /\ handles' = handles \cup {<<"output">>}
               /\ pc' = "write"
               /\ error' = error
          ELSE /\ pc' = "raised"
               /\ error' = <<"output">>
               /\ UNCHANGED <<outFile, outOpened, handles>>
    /\ UNCHANGED <<nameVars, sortVars, fsVars, loopVars, html_content, listed, reads,
                   pageVars>>

\* file.write(html_content), the with block left, print: the write may fail with
\* nothing or with part of the text on disk
WriteOutput ==
    /\ pc = "write"
    /\ \E r \in {"all", "none", "part"} :
          /\ handles' = WithExit(handles, <<"output">>, r = "all")
          /\ IF r = "all"
             THEN /\ outFile' = [st |-> "complete", doc |-> html_content]
                  /\ pc' = "done"
                  /\ error' = error
             ELSE /\ outFile' = [st |-> IF r = "none" THEN "empty" ELSE "partial",
                                 doc |-> NoDoc]
                  /\ pc' = "raised"
                  /\ error' = <<"output">>
    /\ UNCHANGED <<nameVars, sortVars, fsVars, outOpened, loopVars, html_content, listed,
                   reads, pageVars>>

----------------------------------------------------------------------------
(* The generated page: the tab script of get_html_closing *)

\* document.getElementById(id) over the tab-content blocks: the first element with
\* that id, 0 for null.  An element whose id attribute is empty has no id.
getElementById(blocks, id) ==
    LET hits == {k \in 1..Len(blocks) : blocks[k].id = id}
    IN  IF id = <<>> \/ hits = {} THEN 0
        ELSE CHOOSE k \in hits : \A j \in hits : k <= j

\* openTab(evt, tabName): every block hidden, then the block found shown; when
\* none is found the handler ends there with a TypeError.
openTab(blocks, tabName) ==
    LET hidden == [k \in 1..Len(blocks) |-> FALSE]
        el == getElementById(blocks, tabName)
    IN  IF el = 0 THEN hidden ELSE [hidden EXCEPT ![el] = TRUE]

\* DOMContentLoaded: document.querySelector(".tab").click().  Every block starts
\* hidden (.tab-content { display: none }); with no tab the handler throws.
PageLoad ==
    /\ pc = "done"
    /\ ~loaded
    /\ loaded' = TRUE
    /\ LET doc == outFile.doc
       IN  display' = IF doc.links = <<>>
                      THEN [k \in 1..Len(doc.blocks) |-> FALSE]
                      ELSE openTab(doc.blocks, doc.links[1].tab_id)
    /\ UNCHANGED <<nameVars, sortVars, fsVars, outFile, outOpened, pc, error, loopVars,
                   html_content, handles, listed, reads, lastClick>>

\* A click on the k-th tab link: onclick="openTab(event, '<tab_id>')"
Click(k) ==
    /\ pc = "done"
    /\ loaded
    /\ k \in 1..Len(outFile.doc.links)
    /\ display' = openTab(outFile.doc.blocks, outFile.doc.links[k].tab_id)
    /\ lastClick' = k
    /\ UNCHANGED <<nameVars, sortVars, fsVars, outFile, outOpened, pc, error, loopVars,
                   html_content, handles, listed, reads, loaded>>

Next ==
    \/ CheckRoot
    \/ ListRoot
    \/ SkipEntry
    \/ EnterFolder
    \/ OpenCsv
    \/ ParseCsv
    \/ ListPlots
    \/ OpenPlot
    \/ ReadPlot
    \/ CloseFolder
    \/ Assemble
    \/ OpenOutput
    \/ WriteOutput
    \/ PageLoad
    \/ \E k \in 1..Len(outFile.doc.links) : Click(k)

Spec == Init /\ [][Next]_vars

----------------------------------------------------------------------------
(* Claims about detect_and_remove_prefix *)

\* The number of digits s starts with.
C3_LeadingDigits(s) ==
    Cardinality({k \in 1..Len(s) : \A i \in 1..k : s[i] \in Digits})

\* s matches ^\d+_.+$ as Python's re reads it: digits, an underscore, then at
\* least one character, none of them a line feed except one that ends s.
C3_Matches(s) ==
    LET d == C3_LeadingDigits(s)
        n == IF Len(s) > 0 /\ s[Len(s)] = "\n" THEN Len(s) - 1 ELSE Len(s)
    IN  /\ d >= 1
        /\ d + 2 <= n
        /\ s[d + 1] = "_"
        /\ \A i \in (d + 2)..n : s[i] # "\n"

\* t is s with the whitespace at both ends removed.
C3_IsTrimOf(t, s) ==
    \E a \in 1..(Len(s) + 1) : \E b \in 0..Len(s) :
        /\ t = SubSeq(s, a, b)
        /\ \A i \in 1..(a - 1) : s[i] \in Whitespace
        /\ \A i \in (b + 1)..Len(s) : s[i] \in Whitespace
        /\ t # <<>> => (t[1] \notin Whitespace /\ t[Len(t)] \notin Whitespace)

\* C3: detect_and_remove_prefix returns, for a name matching ^\d+_.+$, the leading
\* digit run with its underscore and the remainder trimmed, and for every other
\* name (the empty one included) an empty prefix and the whole name trimmed; it
\* returns a pair for every name.
C3_Decomposition ==
    decomposed # <<>> =>
        /\ Len(decomposed) = 2
        /\ LET d == C3_LeadingDigits(name)
           IN  IF C3_Matches(name)
               THEN /\ decomposed[1] = SubSeq(name, 1, d + 1)
                    /\ C3_IsTrimOf(decomposed[2], SubSeq(name, d + 2, Len(name)))
               ELSE /\ decomposed[1] = <<>>
                    /\ C3_IsTrimOf(decomposed[2], name)

\* "1_ a" has been decomposed into the prefix "1_" and the display name "a".
C3_Witness ==
    /\ name = <<"1", "_", " ", "a">>
    /\ decomposed = << <<"1", "_">>, <<"a">> >>

----------------------------------------------------------------------------
(* Claims about sort_files_and_folders *)

RECURSIVE C4_Pow10(_)
C4_Pow10(n) == IF n = 0 THEN 1 ELSE 10 * C4_Pow10(n - 1)

\* The integer the leading digit run of s denotes.
C4_Value(s) ==
    LET d == C3_LeadingDigits(s)
        RECURSIVE Sum(_)
        Sum(i) == IF i > d THEN 0 ELSE DigitValue(s[i]) * C4_Pow10(d - i) + Sum(i + 1)
    IN  Sum(1)

\* a comes before b in the lexicographic order of the names.
C4_LexBefore(a, b) ==
    \E i \in 1..(Len(b)) :
        /\ \A j \in 1..(i - 1) : j <= Len(a) /\ a[j] = b[j]
        /\ i - 1 <= Len(a)
        /\ (i = Len(a) + 1 \/ (i <= Len(a) /\ Ord(a[i]) < Ord(b[i])))

\* a is placed before b: prefixed names first, by ascending prefix value, names
\* that tie on it and names with no prefix by the full name.
C4_Before(a, b) ==
    IF C3_Matches(a) /\ C3_Matches(b)
    THEN \/ C4_Value(a) < C4_Value(b)
         \/ (C4_Value(a) = C4_Value(b) /\ C4_LexBefore(a, b))
    ELSE IF C3_Matches(a) # C3_Matches(b) THEN C3_Matches(a)
    ELSE C4_LexBefore(a, b)

C4_Orders(s) ==
    {q \in [1..Len(s) -> Range(s)] : \A i, j \in 1..Len(s) : i # j => q[i] # q[j]}

\* C4: the result holds the entries given, each once, every pair in the prefix
\* order; every other order of the same entries sorts to the same sequence, and
\* sorting the result again returns it unchanged.
C4_SortOrder ==
    /\ sorted_items[1] = "ok" =>
          LET r == sorted_items[2]
          IN  /\ Len(r) = Len(items)
              /\ Range(r) = Range(items)
              /\ \A i, j \in 1..Len(r) : i < j => C4_Before(r[i], r[j])
              /\ \A q \in C4_Orders(items) : sort_files_and_folders(q) = r
    /\ resorted[1] = "ok" => resorted[2] = sorted_items[2]

\* "a", "10_x", "2_x" have been sorted to "2_x", "10_x", "a", and sorted again.
C4_Witness ==
    /\ items = << <<"a">>, <<"1", "0", "_", "x">>, <<"2", "_", "x">> >>
    /\ sorted_items = <<"ok", << <<"2", "_", "x">>, <<"1", "0", "_", "x">>, <<"a">> >> >>
    /\ resorted = sorted_items

----------------------------------------------------------------------------
(* Claims about generate_html_report *)

\* s with the whitespace at both ends removed.
C3_Trim(s) ==
    CHOOSE t \in {SubSeq(s, a, b) : a \in 1..(Len(s) + 1), b \in 0..Len(s)} :
        C3_IsTrimOf(t, s)

\* The display name of n: the ordering prefix, if n has one, removed, then trimmed.
C5_Display(n) ==
    IF C3_Matches(n)
    THEN C3_Trim(SubSeq(n, C3_LeadingDigits(n) + 2, Len(n)))
    ELSE C3_Trim(n)

C5_Underscored(n) == [i \in 1..Len(n) |-> IF n[i] = " " THEN "_" ELSE n[i]]

\* The place of n among the names S in the prefix ordering.
C5_Rank(n, S) == 1 + Cardinality({m \in S : C4_Before(m, n)})

\* C1: a run ends with the complete document at the output path, or, when it
\* failed, with the output path as it was before the run.
C1_AllOrNothing ==
    /\ pc = "done" => outFile = [st |-> "complete", doc |-> html_content]
    /\ pc = "raised" => outFile = [st |-> out0, doc |-> NoDoc]

\* C2: a run that fails on the input (an invalid root, a CSV that cannot be
\* parsed, an image that cannot be read) raises with the output path never opened
\* and unchanged; an invalid root raises before any listing or read, and always.
C2_InputFailureLeavesOutput ==
    /\ (pc = "raised" /\ error[1] \in {"ValueError", "csv", "image"}) =>
          /\ ~outOpened
          /\ outFile = [st |-> out0, doc |-> NoDoc]
    /\ error = <<"ValueError">> => (listed = 0 /\ reads = 0 /\ root # "dir")
    /\ (root # "dir" /\ pc # "check") => (pc = "raised" /\ error = <<"ValueError">>)

\* A run over two subfolders has failed on an image of the second one, with an
\* older report at the output path.
C2_Witness ==
    /\ pc = "raised"
    /\ error = <<"image", "file">>
    /\ out0 = "old"
    /\ Len(tabs_links) = 2
    /\ reads >= 1

\* C5: the document of a successful run has one tab link and one block per
\* subdirectory of the input directory and none for its files, the k-th link and
\* the k-th block being those of the k-th subdirectory in the prefix ordering; a
\* directory with no subdirectory gives no link and no block, and the run raises
\* on nothing but the output.
C5_TabsFollowFolders ==
    /\ pc = "done" =>
          LET doc == outFile.doc
              D == DirNames(top)
          IN  /\ Len(doc.links) = Cardinality(D)
              /\ Len(doc.blocks) = Cardinality(D)
              /\ \A d \in D :
                    LET k == C5_Rank(d, D)
                    IN  /\ doc.links[k].tab_name = C5_Display(d)
                        /\ doc.links[k].tab_id = C5_Underscored(C5_Display(d))
                        /\ doc.blocks[k].id = doc.links[k].tab_id
    /\ (root = "dir" /\ DirNames(top) = {} /\ pc = "raised") => error = <<"output">>

\* "2_B", "10_A" and the file "0_n": the tabs are B then A, and none for the file.
C5_Witness ==
    /\ pc = "done"
    /\ NamesOf(top) = {<<"2", "_", "B">>, <<"1", "0", "_", "A">>, <<"0", "_", "n">>}
    /\ Len(outFile.doc.links) = 2
    /\ outFile.doc.links[1].tab_name = <<"B">>
    /\ outFile.doc.links[2].tab_name = <<"A">>

\* The regular files of es whose names end with the suffix.
C6_Files(es, suffix) ==
    {e.name : e \in {x \in es : x.kind = "file" /\ Len(x.name) >= 4
                                 /\ SubSeq(x.name, Len(x.name) - 3, Len(x.name)) = suffix}}

\* The heading of file f: its name without the extension, decomposed.
C6_Heading(f) == C5_Display(SubSeq(f, 1, Len(f) - 4))

C7_ExactlyOneShown ==
    (pc = "done" /\ loaded /\ Len(outFile.doc.links) >= 1) =>
        /\ Cardinality({k \in 1..Len(display) : display[k]}) = 1
        /\ lastClick = 0 => display[1]

\* C8: inside a subfolder an entry that is not a regular .csv or .png file never
\* makes the run fail and adds nothing to the document.
C8_OthersIgnored ==
    /\ (pc = "raised" /\ error[1] \in {"csv", "image"}) => error[2] = "file"
    /\ pc = "done" =>
          \A d \in DirNames(top) :
              LET body == outFile.doc.blocks[C5_Rank(d, DirNames(top))].body
              IN  \A i \in 1..Len(body) :
                      body[i].file \in C6_Files(tree[d], <<".", "c", "s", "v">>)
                                        \cup C6_Files(tree[d], <<".", "p", "n", "g">>)

\* C9: the run holds at most one file handle at a time, holds the output handle
\* only when every input has been read and closed, and holds none once it has
\* returned or raised.
C9_HandlesScoped ==
    /\ Cardinality(handles) <= 1
    /\ pc \in {"done", "raised"} => handles = {}
    /\ pc \in {"csv_parse", "plot_read"} => handles # {<<"output">>}
    /\ outOpened => (pc \in {"write", "done", "raised"} /\ handles \subseteq {<<"output">>})

\* A run has raised while parsing a CSV file it had opened, after reading another
\* file, and holds no handle.
C9_Witness ==
    /\ pc = "raised"
    /\ error = <<"csv", "file">>
    /\ reads = 2
    /\ handles = {}

\* C10: the subfolders of a document have distinct tab identifiers, and a click on
\* a tab link displays no block but the one of that link's subfolder.
C10_DistinctIds ==
    pc = "done" =>
        /\ \A i, j \in 1..Len(outFile.doc.blocks) :
              i # j => outFile.doc.blocks[i].id # outFile.doc.blocks[j].id
        /\ (loaded /\ lastClick # 0) =>
              \A j \in 1..Len(display) : display[j] => j = lastClick

====
